---- MODULE Spec2Model ----
(***************************************************************************)
(* A model of examples/sentence_similarity/gensen_local.ipynb: the code    *)
(* cells of the notebook run top to bottom as one sequential program over  *)
(* the notebook's global names, the files under base_data_path, standard   *)
(* output and the scrapbook.  The helpers the notebook imports             *)
(* (utils_nlp.dataset.snli, utils_nlp.dataset.preprocess,                  *)
(* utils_nlp.models.pretrained_embeddings.glove, gensen_wrapper) are not   *)
(* part of the notebook file; they are modelled from what the notebook's   *)
(* text and recorded outputs say about them.                               *)
(***************************************************************************)
EXTENDS Integers, Sequences, FiniteSets, TLC

VARIABLES
    pc,        \* index in Program of the statement to run (Len+1: run over)
    phase,     \* "ready" | "called" (an external call is in progress) | "aborted"
    globals,   \* the notebook's global names: a function name -> value
    fpc,       \* position in the body of clean_and_tokenize (0: not inside)
    df,        \* the local df of clean_and_tokenize
    corpus,    \* the SNLI distribution: split -> rows of that split
    disk,      \* the files present: a set of paths (sequences of names)
    stdout,    \* what the cells have printed
    scraps,    \* what scrapbook has recorded: a function name -> value
    started,   \* history: the statements begun, in order
    finished   \* history: the statements completed, in order

vars == <<pc, phase, globals, fpc, df, corpus, disk, stdout, scraps, started, finished>>

----------------------------------------------------------------------------
(* Bounds *)

\* the rows of the three split files together
MaxRows == 3
\* the longest list of sentences handed to predict in SpecPredict
MaxSentences == 3

----------------------------------------------------------------------------
(* Values *)

RECURSIVE SeqsUpTo(_, _)
SeqsUpTo(S, n) ==
    IF n = 0 THEN {<<>>}
    ELSE LET shorter == SeqsUpTo(S, n - 1)
         IN  shorter \cup {Append(s, x) : s \in shorter, x \in S}

Range(s) == {s[i] : i \in DOMAIN s}

IsPrefix(s, t) == Len(s) <= Len(t) /\ \A i \in 1..Len(s) : s[i] = t[i]

\* rebinding a name: an assignment `n = v` at the top level of the notebook
Bind(g, n, v) == [k \in DOMAIN g \cup {n} |-> IF k = n THEN v ELSE g[k]]

\* a missing cell of a text column, and of a column of atoms
NaNText == <<"NaN">>
NaN == "NaN"

Splits == {"TRAIN", "DEV", "TEST"}

SentenceCols == {"sentence1", "sentence2"}
TokenCols == {"sentence1_tokens", "sentence2_tokens"}
ParseCols == {"sentence1_binary_parse", "sentence2_binary_parse",
              "sentence1_parse", "sentence2_parse"}
LabelNCols == {"label1", "label2", "label3", "label4", "label5"}
DroppedCols == ParseCols \cup {"captionID", "pairID"} \cup LabelNCols

\* the columns of snli_1.0_<split>.txt, as train.head() shows them
TxtCols == {"gold_label"} \cup SentenceCols \cup DroppedCols
\* the .jsonl files carry the annotators' labels in one column
JsonlCols == (TxtCols \ LabelNCols) \cup {"annotator_labels"}

RawRow(label, s1, s2) ==
    [c \in TxtCols |->
        IF c = "gold_label" THEN label
        ELSE IF c = "sentence1" THEN s1
        ELSE IF c = "sentence2" THEN s2
        ELSE IF c \in ParseCols THEN "parse"
        ELSE IF c = "captionID" THEN "caption"
        ELSE IF c = "pairID" THEN "pair"
        ELSE IF c = "label1" THEN label
        ELSE NaN]

\* the records a split file may hold: two labelled pairs in mixed case and
\* a pair the annotators did not agree on (gold label "-")
RawRows ==
    { RawRow("neutral", <<"A", " ", "b">>, <<"B", ".">>),
      RawRow("contradiction", <<"b", ",", "a">>, <<"a", " ", " ", "B">>),
      RawRow("-", <<"A">>, <<"b">>) }

Frame(cols, rows) == [columns |-> cols, rows |-> rows]

----------------------------------------------------------------------------
(* utils_nlp.dataset.snli and utils_nlp.dataset.preprocess *)

SnliZip == "snli_1.0.zip"
SplitFile(split, file_type) ==
    IF file_type = "txt"
    THEN (IF split = "TRAIN" THEN "snli_1.0_train.txt"
          ELSE IF split = "DEV" THEN "snli_1.0_dev.txt" ELSE "snli_1.0_test.txt")
    ELSE (IF split = "TRAIN" THEN "snli_1.0_train.jsonl"
          ELSE IF split = "DEV" THEN "snli_1.0_dev.jsonl" ELSE "snli_1.0_test.jsonl")

\* what the file of a split holds, by file type: the same records, the .txt
\* file with the columns label1..label5, the .jsonl file with annotator_labels
FileFrame(dist, split, file_type) ==
    IF file_type = "txt" THEN Frame(TxtCols, dist[split])
    ELSE Frame(JsonlCols,
               [i \in DOMAIN dist[split] |->
                   [c \in JsonlCols |->
                       IF c = "annotator_labels" THEN dist[split][i]["label1"]
                       ELSE dist[split][i][c]]])

\* snli.load_pandas_df(local_cache_path, file_split, file_type="txt"): the
\* files it leaves under local_cache_path, and the frame it returns
load_pandas_df_files(files, local_cache_path, file_split, file_type) ==
    files \cup {Append(local_cache_path, SnliZip),
                Append(local_cache_path, SplitFile(file_split, file_type))}

load_pandas_df(dist, local_cache_path, file_split, file_type) ==
    FileFrame(dist, file_split, file_type)

\* snli.clean_cols raises when a column it drops is not there
clean_cols_ok(f) == DroppedCols \subseteq f.columns

RenamedCol(c) == IF c = "gold_label" THEN "score" ELSE c

\* drop the parse, id and annotator columns; gold_label becomes score
clean_cols(f) ==
    LET kept == f.columns \ DroppedCols
        cols == {RenamedCol(c) : c \in kept}
    IN  Frame(cols,
              [i \in DOMAIN f.rows |->
                  [c \in cols |->
                      IF c = "score" /\ "gold_label" \in kept
                      THEN f.rows[i]["gold_label"]
                      ELSE f.rows[i][c]]])

IsMissing(row, c) ==
    IF c \in SentenceCols THEN row[c] = NaNText
    ELSE IF c \in TokenCols THEN FALSE
    ELSE row[c] = NaN

HasMissing(row) == \E c \in DOMAIN row : IsMissing(row, c)

\* snli.clean_rows selects on the score column
clean_rows_ok(f) == "score" \in f.columns

\* a row clean_rows keeps: no missing value, and a gold label
GoodRow(row) == ~HasMissing(row) /\ row["score"] # "-"

RECURSIVE KeepGoodRows(_)
KeepGoodRows(rows) ==
    IF rows = <<>> THEN <<>>
    ELSE IF GoodRow(Head(rows)) THEN <<Head(rows)>> \o KeepGoodRows(Tail(rows))
    ELSE KeepGoodRows(Tail(rows))

\* drop the rows with a missing value and the rows without a gold label
clean_rows(f) == Frame(f.columns, KeepGoodRows(f.rows))

LowerChar(c) ==
    IF c = "A" THEN "a" ELSE IF c = "B" THEN "b" ELSE c

LowerText(s) == IF s = NaNText THEN s ELSE [i \in DOMAIN s |-> LowerChar(s[i])]

\* the atoms of the model (labels, ids, parses) are spelled in lower case
LowerAtom(a) == a

\* preprocess.to_lowercase(df): every string cell of the frame in lower
\* case; a cell that is not a string (a missing value, a list) is left alone
to_lowercase(f) ==
    Frame(f.columns,
          [i \in DOMAIN f.rows |->
              [c \in f.columns |->
                  IF c \in SentenceCols THEN LowerText(f.rows[i][c])
                  ELSE IF c \in TokenCols THEN f.rows[i][c]
                  ELSE LowerAtom(f.rows[i][c])]])

Punctuation == {".", ",", "!"}

\* nltk.word_tokenize on the model's alphabet: words are separated by blanks,
\* a punctuation mark is a token of its own
RECURSIVE TokenizeFrom(_, _, _, _)
TokenizeFrom(s, i, word, out) ==
    LET flushed == IF word = <<>> THEN out ELSE Append(out, word)
    IN  IF i > Len(s) THEN flushed
        ELSE IF s[i] = " " THEN TokenizeFrom(s, i + 1, <<>>, flushed)
        ELSE IF s[i] \in Punctuation
             THEN TokenizeFrom(s, i + 1, <<>>, Append(flushed, <<s[i]>>))
        ELSE TokenizeFrom(s, i + 1, Append(word, s[i]), out)

word_tokenize(s) == TokenizeFrom(s, 1, <<>>, <<>>)

SentenceOf(c) == IF c = "sentence1_tokens" THEN "sentence1" ELSE "sentence2"

\* preprocess.to_nltk_tokens raises on a frame without the sentence columns
\* and on a missing sentence
to_nltk_tokens_ok(f) ==
    /\ SentenceCols \subseteq f.columns
    /\ \A i \in DOMAIN f.rows : \A c \in SentenceCols : f.rows[i][c] # NaNText

\* the token frame concatenated below the frame instead of beside it: the
\* rows of the frame without tokens, then rows holding only the tokens
to_nltk_tokens_below(f) ==
    LET cols == f.columns \cup TokenCols
        n == Len(f.rows)
    IN  Frame(cols,
              [k \in 1..(2 * n) |->
                  [c \in cols |->
                      IF k <= n
                      THEN (IF c \in TokenCols THEN NaN ELSE f.rows[k][c])
                      ELSE (IF c \in TokenCols
                            THEN word_tokenize(f.rows[k - n][SentenceOf(c)])
                            ELSE NaN)]])

\* the frame with the columns sentence1_tokens and sentence2_tokens added
to_nltk_tokens(f) ==
    LET cols == f.columns \cup TokenCols
    IN  Frame(cols,
              [i \in DOMAIN f.rows |->
                  [c \in cols |->
                      IF c \in TokenCols
                      THEN word_tokenize(f.rows[i][SentenceOf(c)])
                      ELSE f.rows[i][c]]])

----------------------------------------------------------------------------
(* utils_nlp.models.pretrained_embeddings.glove *)

VectorFile == "glove.840B.300d.txt"

\* the path download_and_extract returns for a directory
VectorPath(dir_path) == dir_path \o <<"gloVe", VectorFile>>

\* download_and_extract(dir_path): downloads and extracts the vectors unless
\* the vector file is already there; the files afterwards, what it prints,
\* the path it returns
download_and_extract_files(files, dir_path) ==
    IF VectorPath(dir_path) \in files THEN files
    ELSE files \cup {VectorPath(dir_path)}

download_and_extract_prints(files, dir_path) ==
    IF VectorPath(dir_path) \in files
    THEN <<"Vector file already exists. No changes made.">>
    ELSE <<>>

download_and_extract(dir_path) == VectorPath(dir_path)

----------------------------------------------------------------------------
(* examples.sentence_similarity.gensen_wrapper.GenSenClassifier *)

\* GenSenClassifier(config_file, pretrained_embedding_path, learning_rate,
\* cache_dir, max_epoch): a classifier that has not been fitted
GenSenClassifier(config_file, pretrained_embedding_path, learning_rate, cache_dir, max_epoch) ==
    [config_file |-> config_file,
     pretrained_embedding_path |-> pretrained_embedding_path,
     learning_rate |-> learning_rate,
     cache_dir |-> cache_dir,
     max_epoch |-> max_epoch,
     fitted |-> FALSE,
     trained_on |-> <<>>,
     validated_on |-> <<>>,
     tested_on |-> <<>>]

\* fit reads the score and the token columns of its three frames
fit_ok(train_df, dev_df, test_df) ==
    \A f \in {train_df, dev_df, test_df} : {"score"} \cup TokenCols \subseteq f.columns

\* clf.fit(train_df, dev_df, test_df): the model is updated on the records of
\* train_df, validated on dev_df, and its accuracy is reported on test_df
fit(clf, train_df, dev_df, test_df) ==
    [clf EXCEPT !.fitted = TRUE,
                !.trained_on = train_df.rows,
                !.validated_on = dev_df.rows,
                !.tested_on = test_df.rows]

\* the sentence representations a fitted model may give: vectors that are
\* not constant (the encoder's hidden state over its dimensions)
Outputs == {<<1, 0, 0>>, <<0, 1, 0>>, <<0, 1, 1>>, <<2, 0, 1>>}

RECURSIVE Sum(_)
Sum(v) == IF v = <<>> THEN 0 ELSE Head(v) + Sum(Tail(v))

Dot(x, y) == Sum([i \in DOMAIN x |-> x[i] * y[i]])

\* Len(x) squared times the covariance of x and y
Cov(x, y) == Len(x) * Dot(x, y) - Sum(x) * Sum(y)

RECURSIVE Gcd(_, _)
Gcd(a, b) == IF b = 0 THEN a ELSE Gcd(b, a % b)

Sign(n) == IF n > 0 THEN 1 ELSE IF n < 0 THEN -1 ELSE 0

\* a correlation r is kept exactly, as its sign and r squared in lowest terms
NaNCorr == [sign |-> 0, num |-> 0, den |-> 0]

\* the covariance scaled by the variance of the first vector alone
PearsonOneSided(x, y) ==
    LET c == Cov(x, y)
        d == Cov(x, x) * Cov(x, x)
        g == Gcd(c * c, d)
    IN  IF d = 0 THEN NaNCorr
        ELSE [sign |-> Sign(c), num |-> (c * c) \div g, den |-> d \div g]

\* Pearson's correlation coefficient of two vectors (not a number when one
\* of them is constant)
Pearson(x, y) ==
    LET c == Cov(x, y)
        d == Cov(x, x) * Cov(y, y)
        g == Gcd(c * c, d)
    IN  IF d = 0 THEN NaNCorr
        ELSE [sign |-> Sign(c), num |-> (c * c) \div g, den |-> d \div g]

\* predict reads the saved model of a fitted classifier
predict_ok(clf) == clf.fitted

\* clf.predict(sentences): the correlation matrix of the representations of
\* the sentences, rows and columns labelled by position 0..n-1
predict(encode, sentences) ==
    LET n == Len(sentences)
    IN  [i \in 0..(n - 1) |->
            [j \in 0..(n - 1) |->
                Pearson(encode[sentences[i + 1]], encode[sentences[j + 1]])]]

\* DataFrame.to_dict(): column label -> (row label -> value)
to_dict(frame) ==
    [j \in DOMAIN frame |-> [i \in DOMAIN frame |-> frame[i][j]]]

\* scrapbook.glue(name, value)
glue(book, name, value) == Bind(book, name, value)

----------------------------------------------------------------------------
(* The notebook *)

\* the statements with the download of the vectors moved to the top
ProgramDownloadFirst ==
    << "download", "load_train", "load_dev", "load_test",
       "tokenize_train", "tokenize_dev", "tokenize_test",
       "construct", "fit",
       "sentences", "predict", "print", "glue" >>

\* the statements with the predict cell run before the fit cell
ProgramPredictBeforeFit ==
    << "load_train", "load_dev", "load_test",
       "tokenize_train", "tokenize_dev", "tokenize_test",
       "download", "construct",
       "sentences", "predict", "fit", "print", "glue" >>

\* the statements without the scrapbook line of the last cell
ProgramWithoutGlue ==
    << "load_train", "load_dev", "load_test",
       "tokenize_train", "tokenize_dev", "tokenize_test",
       "download", "construct", "fit",
       "sentences", "predict", "print" >>

\* the statements of the code cells, top to bottom
Program ==
    << "load_train", "load_dev", "load_test",
       "tokenize_train", "tokenize_dev", "tokenize_test",
       "download", "construct", "fit",
       "sentences", "predict", "print", "glue" >>

Stmt == IF pc \in DOMAIN Program THEN Program[pc] ELSE "end"

\* the parameters cell
Parameters ==
    [max_epoch |-> "None",
     config_filepath |-> <<"gensen_config.json">>,
     base_data_path |-> <<"..", "..", "data">>,
     nrows |-> "None"]

\* the loads with the splits of dev and test exchanged
LoadSplitSwapped(stmt) ==
    IF stmt = "load_train" THEN "TRAIN"
    ELSE IF stmt = "load_dev" THEN "TEST" ELSE "DEV"

\* train = snli.load_pandas_df(base_data_path, file_split=Split.TRAIN, ...)
LoadStmts == {"load_train", "load_dev", "load_test"}
LoadTarget(stmt) ==
    IF stmt = "load_train" THEN "train"
    ELSE IF stmt = "load_dev" THEN "dev" ELSE "test"
LoadSplit(stmt) ==
    IF stmt = "load_train" THEN "TRAIN"
    ELSE IF stmt = "load_dev" THEN "DEV" ELSE "TEST"
\* no file_type is given: the loader's default
LoadFileType == "txt"

\* train = clean_and_tokenize(train)
TokenizeStmts == {"tokenize_train", "tokenize_dev", "tokenize_test"}
TokenizeArg(stmt) ==
    IF stmt = "tokenize_train" THEN "train"
    ELSE IF stmt = "tokenize_dev" THEN "dev" ELSE "test"
\* the second call assigned to the wrong name: test = clean_and_tokenize(dev)
TokenizeTargetDevToTest(stmt) ==
    IF stmt = "tokenize_train" THEN "train" ELSE "test"

TokenizeTarget(stmt) ==
    IF stmt = "tokenize_train" THEN "train"
    ELSE IF stmt = "tokenize_dev" THEN "dev" ELSE "test"

\* bodies of clean_and_tokenize with a line out of place or left out
CleanBodyLowercaseFirst == <<"clean_cols", "to_lowercase", "clean_rows", "to_nltk_tokens">>
CleanBodyTokenizeFirst == <<"clean_cols", "clean_rows", "to_nltk_tokens", "to_lowercase">>
CleanBodyNoCleanRows == <<"clean_cols", "to_lowercase", "to_nltk_tokens">>

\* the body of clean_and_tokenize(df): each line is df = helper(df)
CleanBody == <<"clean_cols", "clean_rows", "to_lowercase", "to_nltk_tokens">>

Helper == IF fpc \in DOMAIN CleanBody THEN CleanBody[fpc] ELSE "return"

NoFrame == Frame({}, <<>>)

\* the constructor handed the data directory for the path of the vectors
ConstructWithDataPath(g) ==
    GenSenClassifier(g.config_filepath, g.base_data_path, "0.0001",
                     g.base_data_path, g.max_epoch)

\* clf = GenSenClassifier(config_file=config_filepath, ...)
Construct(g) ==
    GenSenClassifier(g.config_filepath, g.pretrained_embedding_path, "0.0001",
                     g.base_data_path, g.max_epoch)

\* fit handed the test frame first and the training frame last
FitArgsTestFirst == <<"test", "dev", "train">>

\* clf.fit(train, dev, test)
FitArgs == <<"train", "dev", "test">>

\* sentences = [...]
Sentences == <<"The sky is blue and beautiful", "Love this blue and beautiful sky!">>

Banner == "******** Similarity Score for sentences **************"

\* the files a run of the notebook leaves under base_data_path
DataFiles(dir) ==
    {Append(dir, SnliZip), VectorPath(dir)}
        \cup {Append(dir, SplitFile(sp, LoadFileType)) : sp \in Splits}

Init ==
    /\ pc = 1
    /\ phase = "ready"
    /\ globals = Parameters
    /\ fpc = 0
    /\ df = NoFrame
    /\ \E a \in SeqsUpTo(RawRows, MaxRows) :
         \E b \in SeqsUpTo(RawRows, MaxRows - Len(a)) :
           \E c \in SeqsUpTo(RawRows, MaxRows - Len(a) - Len(b)) :
             corpus = [sp \in Splits |->
                          IF sp = "TRAIN" THEN a ELSE IF sp = "DEV" THEN b ELSE c]
    /\ disk \in {{}, DataFiles(Parameters.base_data_path)}
    /\ stdout = <<>>
    /\ scraps = <<>>
    /\ started = <<>>
    /\ finished = <<>>

\* the statement stmt is the next to run
At(stmt) == phase = "ready" /\ fpc = 0 /\ Stmt = stmt

\* an external call of the statement stmt is in progress
In(stmt) == phase = "called" /\ Stmt = stmt

Begin(stmt) == started' = Append(started, stmt)
End(stmt) ==
    /\ finished' = Append(finished, stmt)
    /\ pc' = pc + 1
    /\ phase' = "ready"

LoadCall ==
    \E stmt \in LoadStmts :
        /\ At(stmt)
        /\ phase' = "called"
        /\ Begin(stmt)
        /\ UNCHANGED <<pc, globals, fpc, df, corpus, disk, stdout, scraps, finished>>

LoadReturn ==
    \E stmt \in LoadStmts :
        /\ In(stmt)
        /\ globals' = Bind(globals, LoadTarget(stmt),
                           load_pandas_df(corpus, globals.base_data_path,
                                          LoadSplit(stmt), LoadFileType))
        /\ disk' = load_pandas_df_files(disk, globals.base_data_path,
                                        LoadSplit(stmt), LoadFileType)
        /\ End(stmt)
        /\ UNCHANGED <<fpc, df, corpus, stdout, scraps, started>>

\* entering clean_and_tokenize(df)
CleanAndTokenizeCall ==
    \E stmt \in TokenizeStmts :
        /\ At(stmt)
        /\ fpc' = 1
        /\ df' = globals[TokenizeArg(stmt)]
        /\ Begin(stmt)
        /\ UNCHANGED <<pc, phase, globals, corpus, disk, stdout, scraps, finished>>

InBody(h) == phase = "ready" /\ fpc > 0 /\ Helper = h

BodyStep(result) ==
    /\ df' = result
    /\ fpc' = fpc + 1
    /\ UNCHANGED <<pc, phase, globals, corpus, disk, stdout, scraps, started, finished>>

CleanColsStep == InBody("clean_cols") /\ clean_cols_ok(df) /\ BodyStep(clean_cols(df))

CleanRowsStep == InBody("clean_rows") /\ clean_rows_ok(df) /\ BodyStep(clean_rows(df))

ToLowercaseStep == InBody("to_lowercase") /\ BodyStep(to_lowercase(df))

ToNltkTokensStep ==
    InBody("to_nltk_tokens") /\ to_nltk_tokens_ok(df) /\ BodyStep(to_nltk_tokens(df))

\* return df, and the assignment of the returned frame
CleanAndTokenizeReturn ==
    \E stmt \in TokenizeStmts :
        /\ Stmt = stmt
        /\ InBody("return")
        /\ globals' = Bind(globals, TokenizeTarget(stmt), df)
        /\ df' = NoFrame
        /\ fpc' = 0
        /\ End(stmt)
        /\ UNCHANGED <<corpus, disk, stdout, scraps, started>>

DownloadCall ==
    /\ At("download")
    /\ phase' = "called"
    /\ Begin("download")
    /\ UNCHANGED <<pc, globals, fpc, df, corpus, disk, stdout, scraps, finished>>

\* pretrained_embedding_path = download_and_extract(base_data_path)
DownloadReturn ==
    /\ In("download")
    /\ disk' = download_and_extract_files(disk, globals.base_data_path)
    /\ stdout' = stdout \o download_and_extract_prints(disk, globals.base_data_path)
    /\ globals' = Bind(globals, "pretrained_embedding_path",
                       download_and_extract(globals.base_data_path))
    /\ End("download")
    /\ UNCHANGED <<fpc, df, corpus, scraps, started>>

ConstructCall ==
    /\ At("construct")
    /\ phase' = "called"
    /\ Begin("construct")
    /\ UNCHANGED <<pc, globals, fpc, df, corpus, disk, stdout, scraps, finished>>

ConstructReturn ==
    /\ In("construct")
    /\ globals' = Bind(globals, "clf", Construct(globals))
    /\ End("construct")
    /\ UNCHANGED <<fpc, df, corpus, disk, stdout, scraps, started>>

FitCall ==
    /\ At("fit")
    /\ phase' = "called"
    /\ Begin("fit")
    /\ UNCHANGED <<pc, globals, fpc, df, corpus, disk, stdout, scraps, finished>>

FitReturn ==
    /\ In("fit")
    /\ fit_ok(globals[FitArgs[1]], globals[FitArgs[2]], globals[FitArgs[3]])
    /\ globals' = Bind(globals, "clf",
                       fit(globals.clf, globals[FitArgs[1]], globals[FitArgs[2]],
                           globals[FitArgs[3]]))
    /\ End("fit")
    /\ UNCHANGED <<fpc, df, corpus, disk, stdout, scraps, started>>

AssignSentences ==
    /\ At("sentences")
    /\ globals' = Bind(globals, "sentences", Sentences)
    /\ Begin("sentences")
    /\ End("sentences")
    /\ UNCHANGED <<fpc, df, corpus, disk, stdout, scraps>>

PredictCall ==
    /\ At("predict")
    /\ phase' = "called"
    /\ Begin("predict")
    /\ UNCHANGED <<pc, globals, fpc, df, corpus, disk, stdout, scraps, finished>>

\* results = clf.predict(sentences), for the representations the fitted
\* model gives the sentences
PredictReturn ==
    /\ In("predict")
    /\ predict_ok(globals.clf)
    /\ \E encode \in [Range(globals.sentences) -> Outputs] :
           globals' = Bind(globals, "results", predict(encode, globals.sentences))
    /\ End("predict")
    /\ UNCHANGED <<fpc, df, corpus, disk, stdout, scraps, started>>

\* print(banner); print(results)
PrintResults ==
    /\ At("print")
    /\ stdout' = stdout \o <<Banner, globals.results>>
    /\ Begin("print")
    /\ End("print")
    /\ UNCHANGED <<globals, fpc, df, corpus, disk, scraps>>

GlueCall ==
    /\ At("glue")
    /\ phase' = "called"
    /\ Begin("glue")
    /\ UNCHANGED <<pc, globals, fpc, df, corpus, disk, stdout, scraps, finished>>

\* the glue call with the name misspelled
GlueReturnOtherName ==
    /\ In("glue")
    /\ scraps' = glue(scraps, "result", to_dict(globals.results))
    /\ End("glue")
    /\ UNCHANGED <<globals, fpc, df, corpus, disk, stdout, started>>

\* sb.glue("results", results.to_dict())
GlueReturn ==
    /\ In("glue")
    /\ scraps' = glue(scraps, "results", to_dict(globals.results))
    /\ End("glue")
    /\ UNCHANGED <<globals, fpc, df, corpus, disk, stdout, started>>

HelperFails ==
    \/ InBody("clean_cols") /\ ~clean_cols_ok(df)
    \/ InBody("clean_rows") /\ ~clean_rows_ok(df)
    \/ InBody("to_nltk_tokens") /\ ~to_nltk_tokens_ok(df)

\* a call that raises ends the run: no later statement is executed
Raise ==
    /\ phase = "called" \/ HelperFails
    /\ phase' = "aborted"
    /\ UNCHANGED <<pc, globals, fpc, df, corpus, disk, stdout, scraps, started, finished>>

Next ==
    \/ LoadCall
    \/ LoadReturn
    \/ CleanAndTokenizeCall
    \/ CleanColsStep
    \/ CleanRowsStep
    \/ ToLowercaseStep
    \/ ToNltkTokensStep
    \/ CleanAndTokenizeReturn
    \/ DownloadCall
    \/ DownloadReturn
    \/ ConstructCall
    \/ ConstructReturn
    \/ FitCall
    \/ FitReturn
    \/ AssignSentences
    \/ PredictCall
    \/ PredictReturn
    \/ PrintResults
    \/ GlueCall
    \/ GlueReturn
    \/ Raise

Spec == Init /\ [][Next]_vars

----------------------------------------------------------------------------
(* A run in which every external call returns: no call raises, and the     *)
(* kernel goes on to the next step whenever there is one                   *)

NextReturns ==
    \/ LoadCall
    \/ LoadReturn
    \/ CleanAndTokenizeCall
    \/ CleanColsStep
    \/ CleanRowsStep
    \/ ToLowercaseStep
    \/ ToNltkTokensStep
    \/ CleanAndTokenizeReturn
    \/ DownloadCall
    \/ DownloadReturn
    \/ ConstructCall
    \/ ConstructReturn
    \/ FitCall
    \/ FitReturn
    \/ AssignSentences
    \/ PredictCall
    \/ PredictReturn
    \/ PrintResults
    \/ GlueCall
    \/ GlueReturn

SpecReturns == Init /\ [][NextReturns]_vars /\ WF_vars(NextReturns)

----------------------------------------------------------------------------
(* predict as a function of its argument: the notebook stands at the call  *)
(* of clf.predict with a fitted classifier and any list of one or more     *)
(* sentences                                                               *)

SentencePool == Range(Sentences) \cup {"The sky is grey"}

PredictPc == CHOOSE i \in DOMAIN Program : Program[i] = "predict"

\* a frame as clean_and_tokenize returns it for a split file without records
EmptyCleanFrame == to_nltk_tokens(to_lowercase(clean_rows(clean_cols(Frame(TxtCols, <<>>)))))

InitPredict ==
    /\ pc = PredictPc
    /\ phase = "ready"
    /\ \E ss \in SeqsUpTo(SentencePool, MaxSentences) \ {<<>>} :
         LET g1 == Bind(Parameters, "pretrained_embedding_path",
                        download_and_extract(Parameters.base_data_path))
             g2 == Bind(Bind(Bind(g1, "train", EmptyCleanFrame),
                             "dev", EmptyCleanFrame), "test", EmptyCleanFrame)
             g3 == Bind(g2, "clf",
                        fit(Construct(g2), EmptyCleanFrame, EmptyCleanFrame,
                            EmptyCleanFrame))
         IN  globals = Bind(g3, "sentences", ss)
    /\ fpc = 0
    /\ df = NoFrame
    /\ corpus = [sp \in Splits |-> <<>>]
    /\ disk = DataFiles(Parameters.base_data_path)
    /\ stdout = download_and_extract_prints(disk, Parameters.base_data_path)
    /\ scraps = <<>>
    /\ started = SubSeq(Program, 1, PredictPc - 1)
    /\ finished = SubSeq(Program, 1, PredictPc - 1)

NextPredict ==
    \/ PredictCall
    \/ PredictReturn
    \/ Raise

SpecPredict == InitPredict /\ [][NextPredict]_vars

----------------------------------------------------------------------------
(* Claims *)

Bound(n) == n \in DOMAIN globals
Done(stmt) == stmt \in Range(finished)
Begun(stmt) == stmt \in Range(started)
\* stmt is the statement completed last
Returned(stmt) == finished # <<>> /\ finished[Len(finished)] = stmt

\* C1: in a top-to-bottom run the steps happen in one fixed order, one at a
\* time: the three loads, the three clean_and_tokenize calls, the download
\* of the vectors, the construction of the classifier, fit, predict, then
\* printing and recording.  The statements begun and the statements
\* completed are both initial parts of that order, and at most one statement
\* (the last one begun) is in progress.
C1_Order ==
    << "load_train", "load_dev", "load_test",
       "tokenize_train", "tokenize_dev", "tokenize_test",
       "download", "construct", "fit",
       "sentences", "predict", "print", "glue" >>

C1_FixedOrder ==
    /\ IsPrefix(started, C1_Order)
    /\ IsPrefix(finished, C1_Order)
    /\ Len(started) - Len(finished) \in {0, 1}
    /\ (Len(started) = Len(finished) + 1) <=>
           (phase = "called" \/ fpc > 0 \/ phase = "aborted")

C1_Witness == finished = C1_Order /\ phase = "ready"

\* C2: clf.predict is only ever called on a classifier whose fit has
\* completed; a value of results comes from a fitted classifier.
C2_PredictAfterFit ==
    (Begun("predict") \/ Bound("results")) =>
        /\ Done("fit")
        /\ Bound("clf")
        /\ globals.clf.fitted

C2_Witness == In("predict") /\ globals.clf.fitted

\* C3: clean_and_tokenize applies clean_cols, then clean_rows, then
\* to_lowercase, then to_nltk_tokens, each to the output of the one before,
\* and the frame assigned is the output of the last.
C3_Input == globals[TokenizeArg(Stmt)]
C3_Stage1 == clean_cols(C3_Input)
C3_Stage2 == clean_rows(C3_Stage1)
C3_Stage3 == to_lowercase(C3_Stage2)
C3_Stage4 == to_nltk_tokens(C3_Stage3)

C3_Loaded(stmt) ==
    Frame(TxtCols, corpus[IF stmt = "tokenize_train" THEN "TRAIN"
                          ELSE IF stmt = "tokenize_dev" THEN "DEV" ELSE "TEST"])

C3_Var(stmt) ==
    IF stmt = "tokenize_train" THEN "train"
    ELSE IF stmt = "tokenize_dev" THEN "dev" ELSE "test"

C3_CleanThenTokenize ==
    /\ fpc = 1 => df = C3_Input
    /\ fpc = 2 => df = C3_Stage1
    /\ fpc = 3 => df = C3_Stage2
    /\ fpc = 4 => df = C3_Stage3
    /\ fpc = 5 => df = C3_Stage4
    /\ \A stmt \in {"tokenize_train", "tokenize_dev", "tokenize_test"} :
          Returned(stmt) =>
              globals[C3_Var(stmt)] =
                  to_nltk_tokens(to_lowercase(clean_rows(clean_cols(C3_Loaded(stmt)))))

C3_Witness ==
    /\ Returned("tokenize_train")
    /\ Len(globals.train.rows) > 0
    /\ Len(globals.train.rows) < Len(corpus["TRAIN"])

\* C4: fit updates the model on the records of the training frame only; the
\* dev frame is used for validation and the test frame for the reported
\* accuracy.
C4_TrainedOnTrainOnly ==
    (Bound("clf") /\ globals.clf.fitted) =>
        /\ globals.clf.trained_on = globals.train.rows
        /\ globals.clf.validated_on = globals.dev.rows
        /\ globals.clf.tested_on = globals.test.rows

C4_Witness ==
    /\ Bound("clf")
    /\ globals.clf.fitted
    /\ globals.train.rows # <<>>
    /\ globals.dev.rows # <<>>
    /\ globals.test.rows # <<>>
    /\ globals.train.rows # globals.test.rows
    /\ globals.train.rows # globals.dev.rows

\* C5: every frame returned by clean_and_tokenize has the columns score,
\* sentence_1 and sentence_2 and none of the dropped source columns (the
\* parse columns, captionID, pairID, label1..label5).
C5_RenamedColumns ==
    \A stmt \in {"tokenize_train", "tokenize_dev", "tokenize_test"} :
        Done(stmt) =>
            /\ {"score", "sentence_1", "sentence_2"} \subseteq globals[C3_Var(stmt)].columns
            /\ globals[C3_Var(stmt)].columns \cap
                   {"sentence1_binary_parse", "sentence2_binary_parse",
                    "sentence1_parse", "sentence2_parse", "captionID", "pairID",
                    "label1", "label2", "label3", "label4", "label5"} = {}

\* C6: every record of every frame passed to clf.fit is a sentence pair
\* with a gold label, one of entailment, contradiction and neutral.
C6_Labelled(f) ==
    \A i \in DOMAIN f.rows :
        /\ f.rows[i]["score"] \in {"entailment", "contradiction", "neutral"}
        /\ f.rows[i]["sentence1"] # NaNText
        /\ f.rows[i]["sentence2"] # NaNText

C6_GoldLabels ==
    Begun("fit") =>
        /\ C6_Labelled(globals.train)
        /\ C6_Labelled(globals.dev)
        /\ C6_Labelled(globals.test)

C6_Witness ==
    /\ Begun("fit")
    /\ globals.train.rows # <<>>
    /\ \E i \in DOMAIN corpus["TRAIN"] : corpus["TRAIN"][i]["gold_label"] = "-"

\* C7: in a frame returned by clean_and_tokenize the sentence columns are
\* the sentences of the kept records in lower case, and the token columns of
\* a row are the tokenizations of the lower-case sentences of that row, each
\* of its own side; no token has an upper-case letter.
C7_Upper == {"A", "B"}

C7_NoUpper(text) == \A k \in DOMAIN text : text[k] \notin C7_Upper

C7_TokensOf(f, kept) ==
    /\ Len(f.rows) = Len(kept.rows)
    /\ \A i \in DOMAIN f.rows :
          /\ f.rows[i]["sentence1"] = LowerText(kept.rows[i]["sentence1"])
          /\ f.rows[i]["sentence2"] = LowerText(kept.rows[i]["sentence2"])
          /\ C7_NoUpper(f.rows[i]["sentence1"])
          /\ C7_NoUpper(f.rows[i]["sentence2"])
          /\ f.rows[i]["sentence1_tokens"] = word_tokenize(f.rows[i]["sentence1"])
          /\ f.rows[i]["sentence2_tokens"] = word_tokenize(f.rows[i]["sentence2"])
          /\ \A c \in {"sentence1_tokens", "sentence2_tokens"} :
                \A t \in DOMAIN f.rows[i][c] : C7_NoUpper(f.rows[i][c][t])

C7_LowercaseTokens ==
    \A stmt \in {"tokenize_train", "tokenize_dev", "tokenize_test"} :
        Returned(stmt) =>
            C7_TokensOf(globals[C3_Var(stmt)], clean_rows(clean_cols(C3_Loaded(stmt))))

C7_Witness ==
    /\ Returned("tokenize_train")
    /\ \E i \in DOMAIN globals.train.rows :
          /\ globals.train.rows[i]["sentence1_tokens"] = << <<"a">>, <<"b">> >>
          /\ globals.train.rows[i]["sentence2_tokens"] = << <<"b">>, <<".">> >>

\* C8: the frames bound to train, dev and test by load_pandas_df hold the
\* records of the TRAIN, DEV and TEST split files, read from the .txt file,
\* and the zip file and the split files are under the one base_data_path.
C8_Holds(stmt, var, next, split, file) ==
    (Done(stmt) /\ ~Done(next)) =>
        /\ globals[var].rows = corpus[split]
        /\ globals[var].columns = TxtCols
        /\ Append(globals.base_data_path, file) \in disk
        /\ Append(globals.base_data_path, "snli_1.0.zip") \in disk

C8_LoadedSplits ==
    /\ C8_Holds("load_train", "train", "tokenize_train", "TRAIN", "snli_1.0_train.txt")
    /\ C8_Holds("load_dev", "dev", "tokenize_dev", "DEV", "snli_1.0_dev.txt")
    /\ C8_Holds("load_test", "test", "tokenize_test", "TEST", "snli_1.0_test.txt")

C8_Witness ==
    /\ Done("load_test")
    /\ ~Begun("tokenize_train")
    /\ corpus["TRAIN"] # <<>>
    /\ corpus["DEV"] # <<>>
    /\ corpus["TEST"] # <<>>
    /\ corpus["TRAIN"] # corpus["DEV"]
    /\ corpus["DEV"] # corpus["TEST"]
    /\ corpus["TRAIN"] # corpus["TEST"]

C10_NoChange ==
    (In("download") /\ phase' = "ready" /\ VectorPath(globals.base_data_path) \in disk) =>
        /\ disk' = disk
        /\ globals'["pretrained_embedding_path"] \in disk'

C10_SamePath ==
    Bound("clf") =>
        /\ globals.clf.pretrained_embedding_path = globals.pretrained_embedding_path
        /\ globals.clf.pretrained_embedding_path \in disk

C10_IdempotentDownload == [][C10_NoChange]_vars /\ []C10_SamePath

C10_Witness ==
    /\ Bound("clf")
    /\ stdout # <<>>
    /\ stdout[1] = "Vector file already exists. No changes made."

\* C11: the value recorded with scrapbook under the name "results" is the
\* dictionary form (column -> row -> value) of the value clf.predict
\* returned, which is the value that was printed; it is recorded by the one
\* glue statement, after predict has returned, and nothing is recorded
\* before that or when predict did not return.
C11_Count(s, x) == Cardinality({i \in DOMAIN s : s[i] = x})

C11_Recorded ==
    /\ DOMAIN scraps = {"results"}
    /\ Done("predict")
    /\ Bound("results")
    /\ DOMAIN scraps["results"] = DOMAIN globals.results
    /\ \A j \in DOMAIN scraps["results"] :
          /\ DOMAIN scraps["results"][j] = DOMAIN globals.results
          /\ \A i \in DOMAIN scraps["results"][j] :
                scraps["results"][j][i] = globals.results[i][j]
    /\ Len(stdout) >= 2
    /\ stdout[Len(stdout) - 1] = "******** Similarity Score for sentences **************"
    /\ stdout[Len(stdout)] = globals.results

C11_RecordedResults ==
    /\ C11_Count(started, "glue") <= 1
    /\ IF Done("glue") THEN C11_Recorded ELSE DOMAIN scraps = {}

C11_Witness ==
    /\ Done("glue")
    /\ "results" \in DOMAIN scraps
    /\ scraps["results"][0][1] # scraps["results"][0][0]

\* C12: train, dev and test are each rebound to clean_and_tokenize of their
\* own loaded frame; cleaning one split leaves the others as they were (a
\* split not yet cleaned still holds its loaded frame, a split already
\* cleaned keeps its cleaned frame); the frames clf.fit receives are the
\* cleaned train, dev and test frames, in that order.
C12_Raw(split) == Frame(TxtCols, corpus[split])

C12_Clean(split) == to_nltk_tokens(to_lowercase(clean_rows(clean_cols(C12_Raw(split)))))

C12_Own(load, tokenize, var, split, clean) ==
    /\ (Done(load) /\ ~Done(tokenize)) => globals[var] = C12_Raw(split)
    /\ Done(tokenize) => globals[var] = clean

C12_IndependentSplits ==
    LET train_c == C12_Clean("TRAIN")
        dev_c == C12_Clean("DEV")
        test_c == C12_Clean("TEST")
    IN  /\ C12_Own("load_train", "tokenize_train", "train", "TRAIN", train_c)
        /\ C12_Own("load_dev", "tokenize_dev", "dev", "DEV", dev_c)
        /\ C12_Own("load_test", "tokenize_test", "test", "TEST", test_c)
        /\ Begun("fit") =>
              /\ Done("tokenize_train") /\ Done("tokenize_dev") /\ Done("tokenize_test")
        /\ Done("fit") =>
              /\ globals.clf.trained_on = train_c.rows
              /\ globals.clf.validated_on = dev_c.rows
              /\ globals.clf.tested_on = test_c.rows

C12_Witness ==
    /\ Done("fit")
    /\ globals.clf.trained_on # <<>>
    /\ globals.clf.validated_on # <<>>
    /\ globals.clf.tested_on # <<>>
    /\ globals.clf.trained_on # globals.clf.validated_on
    /\ globals.clf.validated_on # globals.clf.tested_on

\* C13: clean_and_tokenize never adds records.  clean_cols keeps every row,
\* clean_rows returns some of the rows it receives in their order,
\* to_lowercase and to_nltk_tokens keep the number and the order of the rows
\* they receive, and the frame returned has at most as many rows as the
\* split file.
RECURSIVE C13_IsSubseq(_, _)
C13_IsSubseq(a, b) ==
    IF a = <<>> THEN TRUE
    ELSE IF b = <<>> THEN FALSE
    ELSE IF Head(a) = Head(b) THEN C13_IsSubseq(Tail(a), Tail(b))
    ELSE C13_IsSubseq(a, Tail(b))

C13_SameOrder(after, before, cols) ==
    /\ Len(after.rows) = Len(before.rows)
    /\ \A i \in DOMAIN after.rows :
          \A c \in cols :
              after.rows[i][c] =
                  IF c \in {"sentence1", "sentence2"}
                  THEN LowerText(before.rows[i][c])
                  ELSE before.rows[i][c]

C13_NoRowsAdded ==
    /\ fpc = 2 =>
          /\ Len(df.rows) = Len(C3_Input.rows)
          /\ \A i \in DOMAIN df.rows :
                /\ df.rows[i]["score"] = C3_Input.rows[i]["gold_label"]
                /\ df.rows[i]["sentence1"] = C3_Input.rows[i]["sentence1"]
                /\ df.rows[i]["sentence2"] = C3_Input.rows[i]["sentence2"]
    /\ fpc = 3 =>
          /\ Len(df.rows) <= Len(C3_Stage1.rows)
          /\ C13_IsSubseq(df.rows, C3_Stage1.rows)
    /\ fpc = 4 => C13_SameOrder(df, C3_Stage2, {"score", "sentence1", "sentence2"})
    /\ fpc = 5 => C13_SameOrder(df, C3_Stage2, {"score", "sentence1", "sentence2"})
    /\ \A stmt \in {"tokenize_train", "tokenize_dev", "tokenize_test"} :
          Done(stmt) => Len(globals[C3_Var(stmt)].rows) <= Len(C3_Loaded(stmt).rows)

C13_Witness ==
    /\ fpc = 5
    /\ Len(df.rows) = 2
    /\ df.rows[1] # df.rows[2]
    /\ Len(C3_Input.rows) = 3

\* C14: provided every external call returns, a top-to-bottom run
\* terminates, and when it has, every statement has been executed exactly
\* once and the results have been recorded.  Termination is stated by its
\* proof rule: until the run is over a next step is enabled (and weak
\* fairness of SpecReturns takes it), and every step lowers a measure that
\* never goes below zero, so only finitely many steps are taken.
C14_Statements ==
    { "load_train", "load_dev", "load_test",
      "tokenize_train", "tokenize_dev", "tokenize_test",
      "download", "construct", "fit", "sentences", "predict", "print", "glue" }

C14_Over == Stmt = "end" /\ phase = "ready" /\ fpc = 0

C14_AllOnce ==
    /\ \A x \in C14_Statements :
          /\ C11_Count(started, x) = 1
          /\ C11_Count(finished, x) = 1
    /\ Range(finished) = C14_Statements
    /\ "results" \in DOMAIN scraps

\* the steps still to take, weighted so that every step lowers it
C14_Remaining ==
    8 * (Cardinality(C14_Statements) - Len(finished))
        - (IF phase = "called" THEN 1 ELSE 0) - fpc

C14_Progress == ~C14_Over => ENABLED NextReturns

C14_Terminates ==
    /\ []C14_Progress
    /\ [][C14_Remaining' < C14_Remaining]_vars
    /\ [](C14_Remaining >= 0)
    /\ [](C14_Over => C14_AllOnce)

C14_Witness == C14_Over /\ "results" \in DOMAIN scraps

====
